---- MODULE Spec2Model ----
\* Sparse matrix (CSR) times dense vector, its parallel row tasks, the deep
\* copy of a matrix, and the timing harness of main.rs.
\*
\* Rust indexes from 0, TLA+ sequences from 1: element k of a Vec is s[k + 1],
\* and the Rust slice s[lo..hi] is SubSeq(s, lo + 1, hi).
EXTENDS Integers, Sequences, FiniteSets, TLC

\* ---------------------------------------------------------------- bounds

\* Modulus of the model's field (the program runs over bn256::Fr).
P == 7
\* Well-formed inputs: at most MaxRows rows, MaxNnz stored entries, MaxCols columns.
MaxRows == 2
MaxNnz == 2
MaxCols == 2
\* Arbitrary (possibly malformed) inputs: data and indices of at most RawLen entries.
RawLen == 1
\* Sizes of the rayon pool that the scheduling specification ranges over.
MaxThreads == 2

\* Field elements the inputs are drawn from (3 * 3 and 3 + 3 + 3 wrap modulo P).
Scalars == {0, 1, 3}
NonZero == Scalars \ {0}

\* ---------------------------------------------------------------- machine

\* usize is modelled UsizeBits wide; size_of::<bn256::Fr>() is 32 bytes.
UsizeBits == 16
ElemSize == 32
UsizeMax == 2 ^ UsizeBits - 1
IsizeMax == 2 ^ (UsizeBits - 1) - 1

\* ---------------------------------------------------------------- field

FAdd(a, b) == (a + b) % P
FMul(a, b) == (a * b) % P
FZero == 0

\* ---------------------------------------------------------------- values

Ok(v) == [ok |-> TRUE, val |-> v, why |-> "none"]
Panic(msg) == [ok |-> FALSE, val |-> <<>>, why |-> msg]

\* An output slot of the sink that no row task has written yet.
Uninit == -1

None == [some |-> FALSE, vec |-> <<>>]
Some(v) == [some |-> TRUE, vec |-> v]

SparseMatrix(d, ix, ip, c) == [data |-> d, indices |-> ix, indptr |-> ip, cols |-> c]

SeqsUpTo(S, n) == UNION {[1..k -> S] : k \in 0..n}

\* ---------------------------------------------------------------- inputs

\* The CSR invariants of the data model.
WellFormed(m) ==
    /\ Len(m.indptr) >= 1
    /\ m.indptr[1] = 0
    /\ \A i \in 1..(Len(m.indptr) - 1) : m.indptr[i] <= m.indptr[i + 1]
    /\ m.indptr[Len(m.indptr)] = Len(m.data)
    /\ Len(m.data) = Len(m.indices)
    /\ \A k \in 1..Len(m.indices) : m.indices[k] < m.cols

Indptrs(n, maxRows) ==
    {p \in UNION {[1..(r + 1) -> 0..n] : r \in 0..maxRows} :
        /\ p[1] = 0
        /\ p[Len(p)] = n
        /\ \A i \in 1..(Len(p) - 1) : p[i] <= p[i + 1]}

MatricesOf(n, c, maxRows) ==
    {SparseMatrix(d, ix, ip, c) :
        d \in [1..n -> NonZero], ix \in [1..n -> 0..(c - 1)], ip \in Indptrs(n, maxRows)}

WellFormedMatrices ==
    UNION {MatricesOf(n, c, MaxRows) : n \in 0..MaxNnz, c \in 0..MaxCols}

Vectors(c) == [1..c -> Scalars]

RawMatrices ==
    {SparseMatrix(d, ix, ip, c) :
        d \in SeqsUpTo({3}, RawLen),
        ix \in SeqsUpTo(0..RawLen, RawLen),
        ip \in SeqsUpTo(0..(RawLen + 1), RawLen + 2),
        c \in 0..RawLen}

RawVectors == SeqsUpTo({3}, RawLen + 1)

\* The stored matrices of the end-to-end scenarios.
ScenarioA == SparseMatrix(<<2, 3, 5>>, <<0, 1, 2>>, <<0, 2, 2, 3>>, 3)
ScenarioEmpty == SparseMatrix(<<>>, <<>>, <<0>>, 3)
\* Three rows, one of them holding the same column twice.
ScenarioDup == SparseMatrix(<<3, 3, 1, 3>>, <<1, 1, 0, 2>>, <<0, 2, 3, 4>>, 3)
\* The row of ScenarioA, with an index past the last column in the last row.
ScenarioBad == SparseMatrix(<<2, 3, 5>>, <<0, 1, 3>>, <<0, 2, 2, 3>>, 3)
ScenarioMatrices == {ScenarioA, ScenarioEmpty, ScenarioDup}

MatNames == {"A", "B", "C"}

\* ---------------------------------------------------------------- state

VARIABLES
    mats,       \* the matrices A, B, C the process holds
    witness,    \* the dense vector passed to multiply_vec
    callee,     \* the matrix a multiply_vec call is running on
    pc,         \* where that call is
    nthreads,   \* size of the rayon pool
    task,       \* per indptr window: "pending", "done", or the panic of its closure
    ranOn,      \* per indptr window: the worker that ran it (0: none yet)
    sink,       \* the output buffer of collect_into_vec
    ret,        \* the Vec multiply_vec returned, if it returned
    failure,    \* the panic that ended the call, if one did
    now,        \* the monotonic clock
    hpc,        \* where main is
    iter,       \* main's loop variable i
    start,      \* main's Instant
    took,       \* the durations main printed for AZ, BZ, CZ
    outs,       \* main's AZ, BZ, CZ
    entered,    \* the clock when the running call was entered
    alone,      \* per product: the clock at its return minus the clock at its entry
    lin,        \* the vectors and scalars of a linear combination
    heap,       \* the backing buffers of Vecs, by address
    src,        \* a matrix object: the addresses of its three Vecs, and cols
    dst,        \* the object clone is building
    cpc,        \* where clone is
    touched     \* whether the copy's storage was written after clone returned

mulVars == <<mats, witness, callee, pc, nthreads, task, ranOn, sink, ret, failure, now>>
mainVars == <<hpc, iter, start, took, outs, entered, alone>>
cloneVars == <<heap, src, dst, cpc, touched>>
vars == <<mulVars, mainVars, lin, cloneVars>>

self == mats[callee]
vector == witness

\* ---------------------------------------------------------------- sparse.rs

\* Rust's check of the range lo..hi against a slice of length Len(s).
SliceCheck(s, lo, hi) ==
    IF lo > hi THEN "slice index starts after end"
    ELSE IF hi > Len(s) THEN "range end index out of range"
    ELSE "none"

Slice(s, lo, hi) == SubSeq(s, lo + 1, hi)

zip_eq(xs, ys) ==
    IF Len(xs) # Len(ys) THEN Panic("zip_eq: iterators of unequal length")
    ELSE Ok([k \in 1..Len(xs) |-> <<xs[k], ys[k]>>])

\* get_row_unchecked with the indices taken from the start of the Vec.
get_row_from_start(m, ptrs) ==
    LET d == SliceCheck(m.data, ptrs[1], ptrs[2])
        x == SliceCheck(m.indices, 0, ptrs[2] - ptrs[1])
    IN  IF d # "none" THEN Panic(d)
        ELSE IF x # "none" THEN Panic(x)
        ELSE zip_eq(Slice(m.data, ptrs[1], ptrs[2]), Slice(m.indices, 0, ptrs[2] - ptrs[1]))

get_row_unchecked(m, ptrs) ==
    LET d == SliceCheck(m.data, ptrs[1], ptrs[2])
        x == SliceCheck(m.indices, ptrs[1], ptrs[2])
    IN  IF d # "none" THEN Panic(d)
        ELSE IF x # "none" THEN Panic(x)
        ELSE zip_eq(Slice(m.data, ptrs[1], ptrs[2]), Slice(m.indices, ptrs[1], ptrs[2]))

\* map_sum with the vector read without a bounds check (a read past the end
\* contributes nothing).
RECURSIVE map_sum_unchecked(_, _, _)
map_sum_unchecked(row, v, acc) ==
    IF row = <<>> THEN Ok(acc)
    ELSE LET val == Head(row)[1]
             col_idx == Head(row)[2]
         IN  IF col_idx >= Len(v) THEN map_sum_unchecked(Tail(row), v, acc)
             ELSE map_sum_unchecked(Tail(row), v, FAdd(acc, FMul(val, v[col_idx + 1])))

\* .map(|(val, col_idx)| *val * vector[*col_idx]).sum(): a left fold from zero.
RECURSIVE map_sum(_, _, _)
map_sum(row, v, acc) ==
    IF row = <<>> THEN Ok(acc)
    ELSE LET val == Head(row)[1]
             col_idx == Head(row)[2]
         IN  IF col_idx >= Len(v) THEN Panic("index out of bounds")
             ELSE map_sum(Tail(row), v, FAdd(acc, FMul(val, v[col_idx + 1])))

\* row_closure with the fold started from one.
row_closure_from_one(m, v, ptrs) ==
    LET row == get_row_unchecked(m, ptrs)
    IN  IF ~row.ok THEN row ELSE map_sum(row.val, v, 1)

\* The closure that par_windows(2).map runs on one window.
row_closure(m, v, ptrs) ==
    LET row == get_row_unchecked(m, ptrs)
    IN  IF ~row.ok THEN row ELSE map_sum(row.val, v, FZero)

\* indptr.par_windows(2): window i is (indptr[i - 1], indptr[i]) in Rust's indices.
par_windows(ip) ==
    [i \in 1..(IF Len(ip) >= 1 THEN Len(ip) - 1 ELSE 0) |-> <<ip[i], ip[i + 1]>>]

Builds == {"debug", "release"}

\* capacity_arg taking two off the length.
capacity_arg_minus_two(build, n) ==
    IF n < 2 /\ build = "debug" THEN Panic("attempt to subtract with overflow")
    ELSE Ok((n - 2) % (UsizeMax + 1))

\* capacity_arg with a saturating subtraction.
capacity_arg_saturating(build, n) == Ok(IF n < 1 THEN 0 ELSE n - 1)

\* self.indptr.len() - 1 on usize: a debug build checks the subtraction, a
\* release build wraps it.
capacity_arg(build, n) ==
    IF n < 1 /\ build = "debug" THEN Panic("attempt to subtract with overflow")
    ELSE Ok((n - 1) % (UsizeMax + 1))

with_capacity(cap) ==
    IF cap * ElemSize > IsizeMax THEN Panic("capacity overflow") ELSE Ok(cap)

\* SinkWrite as a push: the item goes to the first slot still free.
SinkPush(s, i, v) ==
    [s EXCEPT ![CHOOSE j \in DOMAIN s : s[j] = Uninit /\ \A k \in 1..(j - 1) : s[k] # Uninit] = v]

\* collect_into_vec puts the item of window i in slot i of the buffer.
SinkWrite(s, i, v) == [s EXCEPT ![i] = v]

Range(f) == {f[x] : x \in DOMAIN f}
Pending(i) == task[i] = "pending"
Panicked(i) == task[i] \notin {"pending", "done"}

\* multiply_vec without its assert_eq!.
multiply_vec_unasserted ==
    /\ pc = "multiply_vec"
    /\ pc' = "multiply_vec_unchecked"
    /\ now' = now + 1
    /\ UNCHANGED <<mainVars, lin, cloneVars>>
    /\ UNCHANGED <<mats, witness, callee, nthreads, task, ranOn, sink, ret, failure>>

multiply_vec ==
    /\ pc = "multiply_vec"
    /\ IF self.cols # Len(vector)
       THEN pc' = "panicked" /\ failure' = "invalid shape"
       ELSE pc' = "multiply_vec_unchecked" /\ UNCHANGED failure
    /\ now' = now + 1
    /\ UNCHANGED <<mainVars, lin, cloneVars>>
    /\ UNCHANGED <<mats, witness, callee, nthreads, task, ranOn, sink, ret>>

multiply_vec_unchecked ==
    /\ pc = "multiply_vec_unchecked"
    /\ \E build \in Builds :
         LET arg == capacity_arg(build, Len(self.indptr))
             buf == IF arg.ok THEN with_capacity(arg.val) ELSE arg
             n == Len(par_windows(self.indptr))
         IN  IF ~buf.ok
             THEN /\ pc' = "panicked"
                  /\ failure' = buf.why
                  /\ UNCHANGED <<task, ranOn, sink>>
             ELSE /\ pc' = "multiply_vec_into_unchecked"
                  /\ sink' = [i \in 1..n |-> Uninit]
                  /\ task' = [i \in 1..n |-> "pending"]
                  /\ ranOn' = [i \in 1..n |-> 0]
                  /\ UNCHANGED failure
    /\ now' = now + 1
    /\ UNCHANGED <<mainVars, lin, cloneVars>>
    /\ UNCHANGED <<mats, witness, callee, nthreads, ret>>

\* row_task taking the entries it reads out of the vector.
row_task_taking(w, i) ==
    /\ pc = "multiply_vec_into_unchecked"
    /\ Pending(i)
    /\ LET r == row_closure(self, vector, par_windows(self.indptr)[i])
       IN  IF r.ok
           THEN /\ sink' = SinkWrite(sink, i, r.val)
                /\ task' = [task EXCEPT ![i] = "done"]
                /\ witness' = [k \in DOMAIN witness |->
                                 IF \E e \in Range(get_row_unchecked(self, par_windows(self.indptr)[i]).val) :
                                        e[2] + 1 = k
                                 THEN FZero ELSE witness[k]]
           ELSE /\ task' = [task EXCEPT ![i] = r.why]
                /\ UNCHANGED <<sink, witness>>
    /\ ranOn' = [ranOn EXCEPT ![i] = w]
    /\ now' = now + 1
    /\ UNCHANGED <<mainVars, lin, cloneVars>>
    /\ UNCHANGED <<mats, callee, pc, nthreads, ret, failure>>

\* Worker w runs the closure on window i and the collect consumer stores the item.
row_task(w, i) ==
    /\ pc = "multiply_vec_into_unchecked"
    /\ Pending(i)
    /\ LET r == row_closure(self, vector, par_windows(self.indptr)[i])
       IN  IF r.ok
           THEN /\ sink' = SinkWrite(sink, i, r.val)
                /\ task' = [task EXCEPT ![i] = "done"]
           ELSE /\ task' = [task EXCEPT ![i] = r.why]
                /\ UNCHANGED sink
    /\ ranOn' = [ranOn EXCEPT ![i] = w]
    /\ now' = now + 1
    /\ UNCHANGED <<mainVars, lin, cloneVars>>
    /\ UNCHANGED <<mats, witness, callee, pc, nthreads, ret, failure>>

\* The end of collect_into_vec: a panic of a closure is resumed in the caller
\* (the buffer is dropped with it), otherwise the buffer's length is set and
\* multiply_vec_unchecked returns it.
collect_into_vec ==
    /\ pc = "multiply_vec_into_unchecked"
    /\ IF \E i \in DOMAIN task : Panicked(i)
       THEN /\ \E i \in DOMAIN task : Panicked(i) /\ failure' = task[i]
            /\ pc' = "panicked"
            /\ sink' = <<>>
            /\ UNCHANGED ret
       ELSE /\ \A i \in DOMAIN task : task[i] = "done"
            /\ pc' = "returned"
            /\ ret' = Some(sink)
            /\ UNCHANGED <<sink, failure>>
    /\ now' = now + 1
    /\ UNCHANGED <<mainVars, lin, cloneVars>>
    /\ UNCHANGED <<mats, witness, callee, nthreads, task, ranOn>>

MulNext ==
    \/ multiply_vec
    \/ multiply_vec_unchecked
    \/ \E w \in 1..nthreads, i \in DOMAIN task : row_task(w, i)
    \/ collect_into_vec

\* ---------------------------------------------------------------- main.rs

\* for i in 0..16
NumWitness == 16

NoOuts == [x \in MatNames |-> None]
NoTimes == [x \in MatNames |-> -1]

\* What main reads as a witness: vectors of the matrices' width, and a short one.
MainVectors == [1..3 -> NonZero] \cup {<<1>>}
MainMatrices == {ScenarioA, ScenarioDup, ScenarioBad}

\* println!("timing: {i}") and the read of witness i; a missing file ends the process.
read_witness ==
    /\ hpc = "loop"
    /\ IF iter >= NumWitness
       THEN hpc' = "exit" /\ UNCHANGED <<witness, failure>>
       ELSE \/ \E v \in MainVectors : witness' = v /\ hpc' = "timer" /\ UNCHANGED failure
            \/ hpc' = "aborted" /\ failure' = "Data file does not exist" /\ UNCHANGED witness
    /\ UNCHANGED <<mats, callee, pc, nthreads, task, ranOn, sink, ret, now>>
    /\ UNCHANGED <<iter, start, took, outs, entered, alone, lin, cloneVars>>

\* let start = Instant::now();
instant_now ==
    /\ hpc = "timer"
    /\ start' = now
    /\ callee' = "A"
    /\ hpc' = "call"
    /\ UNCHANGED <<mats, witness, pc, nthreads, task, ranOn, sink, ret, failure, now>>
    /\ UNCHANGED <<iter, took, outs, entered, alone, lin, cloneVars>>

\* X.multiply_vec(&witness) is entered, X the callee.
call ==
    /\ hpc = "call"
    /\ pc' = "multiply_vec"
    /\ task' = <<>> /\ ranOn' = <<>> /\ sink' = <<>> /\ ret' = None
    /\ entered' = now
    /\ hpc' = "in"
    /\ UNCHANGED <<mats, witness, callee, nthreads, failure, now>>
    /\ UNCHANGED <<iter, start, took, outs, alone, lin, cloneVars>>

\* The call returns: let XZ = ...; let XZ_time = start.elapsed(); println!(...).
return ==
    /\ hpc = "in"
    /\ pc = "returned"
    /\ outs' = [outs EXCEPT ![callee] = ret]
    /\ took' = [took EXCEPT ![callee] = now - start]
    /\ alone' = [alone EXCEPT ![callee] = now - entered]
    /\ pc' = "idle"
    /\ IF callee = "C"
       THEN hpc' = "verify" /\ UNCHANGED callee
       ELSE hpc' = "call" /\ callee' = (IF callee = "A" THEN "B" ELSE "C")
    /\ UNCHANGED <<mats, witness, nthreads, task, ranOn, sink, ret, failure, now>>
    /\ UNCHANGED <<iter, start, entered, lin, cloneVars>>

\* A panic of the call unwinds through main.
unwind ==
    /\ hpc = "in"
    /\ pc = "panicked"
    /\ hpc' = "aborted"
    /\ UNCHANGED <<mulVars, iter, start, took, outs, entered, alone, lin, cloneVars>>

\* The reads of the expected products and the three assert_eq!; the locals of
\* the loop body are dropped at its end.
verify ==
    /\ hpc = "verify"
    /\ \E same \in BOOLEAN :
         IF same
         THEN /\ iter' = iter + 1
              /\ hpc' = "loop"
              /\ outs' = NoOuts /\ took' = NoTimes /\ alone' = NoTimes
              /\ UNCHANGED failure
         ELSE /\ hpc' = "aborted"
              /\ failure' = "assertion left == right failed"
              /\ UNCHANGED <<iter, outs, took, alone>>
    /\ UNCHANGED <<mats, witness, callee, pc, nthreads, task, ranOn, sink, ret, now>>
    /\ UNCHANGED <<start, entered, lin, cloneVars>>

MainNext ==
    \/ read_witness
    \/ instant_now
    \/ call
    \/ return
    \/ unwind
    \/ verify
    \/ MulNext

\* ---------------------------------------------------------------- clone

Fields == <<"data", "indices", "indptr">>
Null == 0
Addresses == 1..6

\* The matrix value an object denotes.
Deref(h, o) == SparseMatrix(h[o.data], h[o.indices], h[o.indptr], o.cols)

\* The next unused address.
Fresh(d) == 4 + Cardinality({k \in 1..3 : d[Fields[k]] # Null})

\* CollectTarget handing out the source's own buffer.
ShareTarget(from, fresh) == from

\* collect() builds a new Vec: the buffer it fills is a fresh allocation.
CollectTarget(from, fresh) == fresh

FieldAfter(f) == IF f = "data" THEN "indices" ELSE IF f = "indices" THEN "indptr" ELSE "cloned"

\* self.<f>.par_iter().cloned().collect() starts: the buffer is reserved.
collect_begin ==
    /\ cpc \in Range(Fields)
    /\ dst[cpc] = Null
    /\ LET to == CollectTarget(src[cpc], Fresh(dst))
       IN  /\ heap' = [heap EXCEPT ![to] = [j \in 1..Len(heap[src[cpc]]) |-> Uninit]]
           /\ dst' = [dst EXCEPT ![cpc] = to]
    /\ UNCHANGED <<mulVars, mainVars, lin, src, cpc, touched>>

\* One element is cloned into its place, in any order.
cloned(j) ==
    /\ cpc \in Range(Fields)
    /\ dst[cpc] # Null
    /\ j \in 1..Len(heap[dst[cpc]])
    /\ heap[dst[cpc]][j] = Uninit
    /\ heap' = [heap EXCEPT ![dst[cpc]][j] = heap[src[cpc]][j]]
    /\ UNCHANGED <<mulVars, mainVars, lin, src, dst, cpc, touched>>

\* The collect of one field ends; after the last one Self { .., cols } is built.
collect_end ==
    /\ cpc \in Range(Fields)
    /\ dst[cpc] # Null
    /\ \A j \in 1..Len(heap[dst[cpc]]) : heap[dst[cpc]][j] # Uninit
    /\ cpc' = FieldAfter(cpc)
    /\ dst' = IF cpc = "indptr" THEN [dst EXCEPT !.cols = src.cols] ELSE dst
    /\ UNCHANGED <<mulVars, mainVars, lin, heap, src, touched>>

\* What one write through a Vec's public field can make of its buffer.
Changes(buf) ==
    {[buf EXCEPT ![j] = x] : j \in DOMAIN buf, x \in Scalars}
        \cup {Append(buf, x) : x \in Scalars}
        \cup (IF buf = <<>> THEN {} ELSE {SubSeq(buf, 1, Len(buf) - 1)})

\* The owner of the copy changes one of its Vecs.
write_copy ==
    /\ cpc = "cloned"
    /\ ~touched
    /\ \E k \in 1..3 : \E new \in Changes(heap[dst[Fields[k]]]) \ {heap[dst[Fields[k]]]} :
         heap' = [heap EXCEPT ![dst[Fields[k]]] = new]
    /\ touched' = TRUE
    /\ UNCHANGED <<mulVars, mainVars, lin, src, dst, cpc>>

CloneNext ==
    \/ collect_begin
    \/ \E j \in (IF cpc \in Range(Fields) THEN 1..Len(heap[src[cpc]]) ELSE {}) : cloned(j)
    \/ collect_end
    \/ write_copy

\* ---------------------------------------------------------------- drivers

NoLin == [v1 |-> <<>>, v2 |-> <<>>, a |-> 0, b |-> 0]
NoObject == [data |-> Null, indices |-> Null, indptr |-> Null, cols |-> 0]
NoHeap == [x \in Addresses |-> <<>>]

NoClone ==
    /\ heap = NoHeap
    /\ src = NoObject
    /\ dst = NoObject
    /\ cpc = "idle"
    /\ touched = FALSE

NoCall ==
    /\ task = <<>>
    /\ ranOn = <<>>
    /\ sink = <<>>
    /\ ret = None
    /\ failure = "none"
    /\ now = 0

NoMain ==
    /\ iter = 0
    /\ start = 0
    /\ took = NoTimes
    /\ outs = NoOuts
    /\ entered = 0
    /\ alone = NoTimes

\* A call of multiply_vec(m, v) about to start, on a pool of n threads.
CallOf(m, v, n) ==
    /\ mats = [x \in MatNames |-> IF x = "A" THEN m ELSE ScenarioEmpty]
    /\ witness = v
    /\ callee = "A"
    /\ pc = "multiply_vec"
    /\ nthreads = n
    /\ hpc = "in"
    /\ lin = NoLin
    /\ NoCall /\ NoMain /\ NoClone

\* Any matrix, well formed or not, against any vector.
Init == \E m \in RawMatrices, v \in RawVectors : CallOf(m, v, 1)

Spec == Init /\ [][MulNext]_vars

\* Well-formed matrices against vectors of matching length.
InitWF ==
    \/ \E m \in WellFormedMatrices : \E v \in Vectors(m.cols) : CallOf(m, v, 1)
    \/ \E m \in ScenarioMatrices : \E v \in Vectors(m.cols) : CallOf(m, v, 1)

SpecWF == InitWF /\ [][MulNext]_vars

\* The scenario matrices on pools of every size.
InitPar ==
    \E m \in ScenarioMatrices \cup {ScenarioBad}, n \in 1..MaxThreads :
        \E v \in Vectors(m.cols) : CallOf(m, v, n)

SpecPar == InitPar /\ [][MulNext]_vars

\* main after it has loaded A, B and C.
InitMain ==
    /\ mats \in [MatNames -> MainMatrices]
    /\ witness = <<>>
    /\ callee = "A"
    /\ pc = "idle"
    /\ nthreads = 1
    /\ hpc = "loop"
    /\ lin = NoLin
    /\ NoCall /\ NoMain /\ NoClone

SpecMain == InitMain /\ [][MainNext]_vars

\* clone(m) about to start, m stored at addresses 1, 2, 3.
CloneMatrices == WellFormedMatrices \cup ScenarioMatrices \cup {ScenarioBad}

InitClone ==
    \E m \in CloneMatrices :
        /\ mats = [x \in MatNames |-> m]
        /\ witness = <<>>
        /\ callee = "A"
        /\ pc = "idle"
        /\ nthreads = 1
        /\ hpc = "clone"
        /\ lin = NoLin
        /\ NoCall /\ NoMain
        /\ heap = [x \in Addresses |->
                     IF x = 1 THEN m.data ELSE IF x = 2 THEN m.indices
                     ELSE IF x = 3 THEN m.indptr ELSE <<>>]
        /\ src = [data |-> 1, indices |-> 2, indptr |-> 3, cols |-> m.cols]
        /\ dst = NoObject
        /\ cpc = "data"
        /\ touched = FALSE

SpecClone == InitClone /\ [][CloneNext]_vars

\* a * v1 + b * v2, element by element.
LinComb(a, v1, b, v2) == [k \in 1..Len(v1) |-> FAdd(FMul(a, v1[k]), FMul(b, v2[k]))]

\* multiply_vec is applied to v1, then to v2, then to a * v1 + b * v2.
apply_next ==
    /\ hpc = "lin"
    /\ pc = "returned"
    /\ outs' = [outs EXCEPT ![callee] = ret]
    /\ IF callee = "C"
       THEN /\ hpc' = "lin_done"
            /\ pc' = "idle"
            /\ UNCHANGED <<callee, witness, task, ranOn, sink, ret>>
       ELSE /\ callee' = (IF callee = "A" THEN "B" ELSE "C")
            /\ witness' = (IF callee = "A" THEN lin.v2
                           ELSE LinComb(lin.a, lin.v1, lin.b, lin.v2))
            /\ pc' = "multiply_vec"
            /\ task' = <<>> /\ ranOn' = <<>> /\ sink' = <<>> /\ ret' = None
            /\ UNCHANGED hpc
    /\ UNCHANGED <<mats, nthreads, failure, now>>
    /\ UNCHANGED <<iter, start, took, entered, alone, lin, cloneVars>>

LinNext == MulNext \/ apply_next

\* One-row matrices, two vectors and two scalars.
LinMatrices == UNION {MatricesOf(n, c, 1) : n \in 0..MaxNnz, c \in 0..MaxCols}

InitLin ==
    \E m \in LinMatrices, a \in Scalars, b \in Scalars :
        \E v1 \in [1..m.cols -> NonZero], v2 \in [1..m.cols -> NonZero] :
            /\ mats = [x \in MatNames |-> m]
            /\ witness = v1
            /\ callee = "A"
            /\ pc = "multiply_vec"
            /\ nthreads = 1
            /\ hpc = "lin"
            /\ lin = [v1 |-> v1, v2 |-> v2, a |-> a, b |-> b]
            /\ NoCall /\ NoMain /\ NoClone

SpecLin == InitLin /\ [][LinNext]_vars

\* ---------------------------------------------------------------- properties

\* The product as the data model defines it: row i is the sum, over the
\* positions k of its window, of data[k] * v[indices[k]] (k counted from 0).
RECURSIVE SumOver(_, _, _)
SumOver(K, m, v) ==
    IF K = {} THEN 0
    ELSE LET k == CHOOSE x \in K : TRUE
         IN  (m.data[k + 1] * v[m.indices[k + 1] + 1] + SumOver(K \ {k}, m, v)) % P

Window(m, i) == {k \in 0..(Len(m.data) - 1) : m.indptr[i] <= k /\ k < m.indptr[i + 1]}

Product(m, v) == [i \in 1..(Len(m.indptr) - 1) |-> SumOver(Window(m, i), m, v)]

Returned == pc = "returned"
Failed == pc = "panicked"
Matching == Len(vector) = self.cols

\* C1: for a well-formed matrix and a vector of its width, multiply_vec returns
\* the vector whose entry i is the sum over row i's window of
\* data[k] * v[indices[k]]; a row without entries gives zero; the 3x3 scenario
\* matrix times [1,1,1] gives [5,0,5].
C1_Product ==
    (WellFormed(self) /\ Matching) =>
        /\ ~Failed
        /\ Returned =>
             /\ ret = Some(Product(self, vector))
             /\ \A i \in 1..(Len(self.indptr) - 1) :
                    self.indptr[i] = self.indptr[i + 1] => ret.vec[i] = FZero
             /\ (self = ScenarioA /\ vector = <<1, 1, 1>>) => ret.vec = <<5, 0, 5>>

C1_Witness ==
    /\ Returned
    /\ self = ScenarioA
    /\ vector = <<1, 1, 1>>
    /\ ret = Some(<<5, 0, 5>>)

\* C2: with a vector whose length differs from cols the call fails on the
\* shape assertion, before a buffer exists or a row is computed, and returns
\* nothing; with a matching vector and a well-formed matrix it does not fail,
\* can always go on until it has returned, and returns len(indptr) - 1 entries.
C2_Shape ==
    /\ ~Matching =>
         /\ pc \in {"multiply_vec", "panicked"}
         /\ Failed => failure = "invalid shape"
         /\ ret = None /\ sink = <<>> /\ task = <<>>
    /\ (Matching /\ WellFormed(self)) =>
         /\ ~Failed
         /\ Returned => ret.some /\ Len(ret.vec) = Len(self.indptr) - 1
    /\ ~(Returned \/ Failed) => ENABLED MulNext

C2_Witness ==
    /\ Failed
    /\ failure = "invalid shape"
    /\ Len(self.indptr) >= 2
    /\ Len(vector) > self.cols

\* C3: whatever the size of the pool, the workers the windows ran on and the
\* order they finished in, a filled slot i holds the product's entry i, a task
\* fills its own slot only and a filled slot is never written again; the
\* returned vector is the product.
FilledSlotsArePositional ==
    (WellFormed(self) /\ Matching) =>
        /\ \A i \in DOMAIN sink :
               sink[i] # Uninit => task[i] = "done" /\ sink[i] = Product(self, vector)[i]
        /\ Returned => ret = Some(Product(self, vector))

SlotStep ==
    (pc = "multiply_vec_into_unchecked" /\ pc' = pc) =>
        \A i \in DOMAIN sink :
            sink'[i] # sink[i] => task[i] = "pending" /\ task'[i] = "done" /\ ranOn'[i] \in 1..nthreads

C3_Deterministic == []FilledSlotsArePositional /\ [][SlotStep]_vars

\* The last window has finished first, on the second of two workers.
C3_Witness ==
    /\ self = ScenarioA
    /\ vector = <<1, 1, 1>>
    /\ nthreads = 2
    /\ sink = <<Uninit, Uninit, 5>>
    /\ ranOn = <<0, 0, 2>>

\* C4: clone never fails; when it has returned the copy denotes the same
\* matrix as the source, element by element, in buffers of its own; the
\* source denotes the same matrix before, during and after the clone and
\* after a write to the copy.
C4_Clone ==
    /\ Deref(heap, src) = mats["A"]
    /\ cpc \in {"data", "indices", "indptr", "cloned"}
    /\ cpc = "cloned" =>
         /\ {dst.data, dst.indices, dst.indptr} \cap {src.data, src.indices, src.indptr} = {}
         /\ Cardinality({dst.data, dst.indices, dst.indptr}) = 3
         /\ dst.cols = src.cols
         /\ ~touched => Deref(heap, dst) = mats["A"]
         /\ touched => Deref(heap, dst) # mats["A"]

C4_Witness ==
    /\ cpc = "cloned"
    /\ touched
    /\ Len(mats["A"].data) >= 2
    /\ Deref(heap, dst).data # mats["A"].data
    /\ Deref(heap, src) = mats["A"]

\* What the multiply runs into: no indptr at all, a window that is no range of
\* data or of indices, or a column index in a window that is no index of the vector.
Detected(m, v) ==
    \/ Len(m.indptr) = 0
    \/ \E i \in 1..(Len(m.indptr) - 1) :
         \/ m.indptr[i] > m.indptr[i + 1]
         \/ m.indptr[i + 1] > Len(m.data)
         \/ m.indptr[i + 1] > Len(m.indices)
         \/ \E k \in (m.indptr[i] + 1)..m.indptr[i + 1] : m.indices[k] >= Len(v)

\* C5 as stated: a matrix that violates a CSR invariant never gets a vector back.
C5_MalformedNeverReturns == (~WellFormed(self) /\ Matching) => ~Returned

\* C5, amended: a malformed matrix makes the call fail exactly when indptr is
\* empty, a window decreases or ends past data or indices, or a column index
\* inside a window is >= cols, and then with a subtraction, capacity, slice or
\* index failure; any other violation goes unnoticed and the call returns the
\* sums over the windows as they are.
C5_Amended ==
    (~WellFormed(self) /\ Matching) =>
        /\ Detected(self, vector) =>
             /\ ~Returned
             /\ Failed => failure \in {"attempt to subtract with overflow", "capacity overflow",
                                       "slice index starts after end",
                                       "range end index out of range", "index out of bounds"}
        /\ ~Detected(self, vector) =>
             /\ ~Failed
             /\ Returned => ret = Some(Product(self, vector))

C5_Witness ==
    /\ ~WellFormed(self)
    /\ Matching
    /\ Failed
    /\ failure = "index out of bounds"

\* C6: for a well-formed matrix, vectors v1, v2 and scalars a, b, the product
\* with a*v1 + b*v2 is a times the product with v1 plus b times the product
\* with v2, entry by entry.
C6_Linear ==
    hpc = "lin_done" =>
        /\ \A x \in MatNames : outs[x].some
        /\ outs["C"].vec = LinComb(lin.a, outs["A"].vec, lin.b, outs["B"].vec)

\* A row holding column 1 twice, with both scalars 3.
C6_Witness ==
    /\ hpc = "lin_done"
    /\ mats["A"].indices = <<1, 1>>
    /\ mats["A"].indptr = <<0, 2>>
    /\ lin.a = 3 /\ lin.b = 3
    /\ lin.v1 # lin.v2
    /\ outs["C"].vec # <<0>>

\* C7: the empty matrix (only indptr = [0], cols = 3) against a vector of
\* length 3 does not fail, runs no row task and returns the empty vector.
C7_Empty ==
    (self = ScenarioEmpty /\ Len(vector) = 3) =>
        /\ ~Failed
        /\ task = <<>> /\ sink = <<>>
        /\ Returned => ret = Some(<<>>)
        /\ ~Returned => ENABLED MulNext

C7_Witness ==
    /\ self = ScenarioEmpty
    /\ vector = <<3, 0, 1>>
    /\ Returned
    /\ ret = Some(<<>>)

\* C8: no step of a call, returning or failing, changes a matrix or the
\* vector it was given; so when main has the three products of an iteration,
\* each is the product of its matrix with the witness as it was read.
FrameStep == mats' = mats /\ (hpc = "in" => witness' = witness)

ProductsOfInputs ==
    hpc = "verify" => \A x \in MatNames : outs[x] = Some(Product(mats[x], witness))

C9_TimeOfThatMultiplyAlone ==
    \A x \in MatNames : took[x] # -1 => took[x] = alone[x]

\* C10: with an empty indptr and a vector of length cols the call fails on the
\* capacity len(indptr) - 1 (the checked subtraction, or the allocation of the
\* wrapped difference) before any row is computed; a returned vector comes
\* from an indptr of at least one entry.
C10_EmptyIndptr ==
    /\ (Len(self.indptr) = 0 /\ Matching) =>
         /\ pc \in {"multiply_vec", "multiply_vec_unchecked", "panicked"}
         /\ task = <<>> /\ sink = <<>> /\ ret = None
         /\ Failed => failure \in {"attempt to subtract with overflow", "capacity overflow"}
         /\ ~Failed => ENABLED MulNext
    /\ Returned => Len(self.indptr) >= 1

C10_Witness ==
    /\ Len(self.indptr) = 0
    /\ Matching
    /\ self.cols = 1
    /\ Failed
    /\ failure = "capacity overflow"

====
